---- MODULE Spec2Model ----
(***************************************************************************)
(* A model of server/provenance.py: the span locator                       *)
(* find_sublist_positions, the attention attributor compute_attention and  *)
(* the embedding attributor                                                *)
(* DocumentSimilarityAttribution.compute_similarity.                       *)
(*                                                                         *)
(* Python sequences are 0-based; the model keeps the 0-based offsets of    *)
(* the code and converts at the one place where a TLA+ sequence is read.   *)
(* Floats are modelled as exact rationals <<num, den>> in lowest terms.    *)
(***************************************************************************)
EXTENDS Integers, Sequences, FiniteSets

VARIABLES
    fn,                 \* the function this call is of
    pc,                 \* "called" | "returned" | "raised"
    thread_tokens,      \* the haystack: the tokens of the thread
    part_tokens,        \* find_sublist_positions: the needle
    query_tokens,       \* compute_attention: tokenizer.encode(query)
    answer_tokens,      \* compute_attention: tokenizer.encode(answer)
    context,            \* attention: the documents' tokens; similarity: their embeddings
    include_query,      \* os.getenv("attribute_include_query") != "False"
    locals,             \* the callee's local variables when it returned
    exc,                \* the exception the call raised, if it did
    ret                 \* the value returned (None until then, and on a raise)

vars == <<fn, pc, thread_tokens, part_tokens, query_tokens, answer_tokens,
          context, include_query, locals, exc, ret>>

----------------------------------------------------------------------------
\* Bounds of the model.

MaxHaystack == 4    \* find_sublist_positions: longest haystack and needle
MaxThread == 2      \* compute_attention: longest thread, in tokens
NumHeads == 1       \* compute_attention: heads of the last layer
MaxDocs == 2        \* compute_similarity: most documents in a context

Tokens == {1, 2}    \* token ids
Heads == 1 .. NumHeads
SimUnits == -2 .. 2 \* cosine similarities, in halves: -1, -1/2, 0, 1/2, 1

\* Python values, tagged with their type.
None == [kind |-> "None", val |-> <<>>]
Tuple(a, b) == [kind |-> "tuple", val |-> <<a, b>>]
List(s) == [kind |-> "list", val |-> s]
\* raise ValueError("Sublist not found")
ValueError == [kind |-> "ValueError", val |-> <<>>]

SeqsUpTo(S, n) == UNION {[1 .. k -> S] : k \in 0 .. n}

----------------------------------------------------------------------------
\* Python's list indexing and slicing, on 0-based offsets.

\* The offset a slice bound i denotes in a sequence of length n: a negative
\* bound counts from the end, and both are clamped into 0 .. n.
SliceBound(i, n) ==
    IF i < 0 THEN (IF i + n < 0 THEN 0 ELSE i + n)
    ELSE IF i > n THEN n ELSE i

\* s[lo:hi]
Slice(s, lo, hi) ==
    LET a == SliceBound(lo, Len(s))
        b == SliceBound(hi, Len(s))
    IN  IF a >= b THEN <<>> ELSE SubSeq(s, a + 1, b)

----------------------------------------------------------------------------
\* find_sublist_positions

RECURSIVE FindFrom(_, _, _)
\* The for loop of find_sublist_positions from iteration i on: the first
\* match returns its span, and running out of offsets raises.
FindFrom(thread, part, i) ==
    LET len_thread == Len(thread)
        len_part == Len(part)
    IN  IF i >= len_thread - len_part + 1
        THEN ValueError
        ELSE IF Slice(thread, i, i + len_part) = part
             THEN Tuple(i, i + len_part - 1)
             ELSE FindFrom(thread, part, i + 1)

\* A scan that starts at offset 1: range(1, ...).
FindSkippingFirstOffset(thread, part) == FindFrom(thread, part, 1)

RECURSIVE FindBack(_, _, _)
FindBack(thread, part, i) ==
    IF i < 0
    THEN ValueError
    ELSE IF Slice(thread, i, i + Len(part)) = part
         THEN Tuple(i, i + Len(part) - 1)
         ELSE FindBack(thread, part, i - 1)

\* A scan from the highest offset down: the last match wins.
FindLastMatch(thread, part) == FindBack(thread, part, Len(thread) - Len(part))

find_sublist_positions(thread, part) == FindFrom(thread, part, 0)

Raised(v) == v.kind = "ValueError"

----------------------------------------------------------------------------
\* Floats, as exact rationals <<num, den>> in lowest terms with den > 0.
\* A zero divisor gives IEEE's <<1, 0>> (inf), <<-1, 0>> (-inf), <<0, 0>> (nan).

Abs(x) == IF x < 0 THEN -x ELSE x

Sign(x) == IF x < 0 THEN -1 ELSE IF x > 0 THEN 1 ELSE 0

RECURSIVE Gcd(_, _)
Gcd(a, b) == IF b = 0 THEN a ELSE Gcd(b, a % b)

Frac(num, den) ==
    IF den = 0 THEN <<Sign(num), 0>>
    ELSE LET g == Gcd(Abs(num), Abs(den))
         IN  <<Sign(den) * (num \div g), Abs(den) \div g>>

Float(k) == <<k, 1>>

IsFinite(x) == x[2] # 0

\* x + y
Add(x, y) == Frac(x[1] * y[2] + y[1] * x[2], x[2] * y[2])

\* x - y
Sub(x, y) == Frac(x[1] * y[2] - y[1] * x[2], x[2] * y[2])

\* x / y
TrueDiv(x, y) == Frac(x[1] * y[2], x[2] * y[1])

\* x > 0
Positive(x) == x[1] > 0 /\ x[2] > 0

\* x <= y, of finite x and y
Leq(x, y) == x[1] * y[2] <= y[1] * x[2]

RECURSIVE SumList(_)
\* Python's sum(xs): 0 + xs[0] + xs[1] + ...
SumList(xs) ==
    IF xs = <<>> THEN Float(0)
    ELSE Add(SumList(SubSeq(xs, 1, Len(xs) - 1)), xs[Len(xs)])

----------------------------------------------------------------------------
\* compute_attention

\* The attention tensors of the last layer, attentions[0], for a thread of
\* n tokens: one weight per head, query position and key position.
\* att[h][i + 1][j + 1] is attentions[0, h - 1, i, j].
Cells(n) == Heads \X (0 .. n - 1) \X (0 .. n - 1)

Weight(att, h, i, j) == att[h][i + 1][j + 1]

\* No attention at all, and the unit tensors: weight 1 in one cell. The
\* sums compute_attention takes are linear in the tensor, and these span it.
ZeroTensor(n) == [h \in Heads |-> [i \in 1 .. n |-> [j \in 1 .. n |-> 0]]]

UnitTensor(c, n) ==
    [h \in Heads |-> [i \in 1 .. n |-> [j \in 1 .. n |->
        IF <<h, i - 1, j - 1>> = c THEN 1 ELSE 0]]]

Tensors(n) == {ZeroTensor(n)} \cup {UnitTensor(c, n) : c \in Cells(n)}

RECURSIVE SumKeys(_, _, _, _, _)
\* The weights of head h from query position i to the key positions j .. hi - 1.
SumKeys(att, h, i, j, hi) ==
    IF j >= hi THEN 0 ELSE Weight(att, h, i, j) + SumKeys(att, h, i, j + 1, hi)

RECURSIVE SumQueries(_, _, _, _, _, _)
\* The same, over the query positions i .. hi - 1.
SumQueries(att, h, i, hi, c_lo, c_hi) ==
    IF i >= hi THEN 0
    ELSE SumKeys(att, h, i, c_lo, c_hi) + SumQueries(att, h, i + 1, hi, c_lo, c_hi)

RECURSIVE SumHeads(_, _, _, _, _, _)
\* The same, over the heads h .. NumHeads.
SumHeads(att, h, r_lo, r_hi, c_lo, c_hi) ==
    IF h > NumHeads THEN 0
    ELSE SumQueries(att, h, r_lo, r_hi, c_lo, c_hi)
         + SumHeads(att, h + 1, r_lo, r_hi, c_lo, c_hi)

\* attentions[0, :, r_lo:r_hi, c_lo:c_hi].sum().item()
BlockSum(att, n, r_lo, r_hi, c_lo, c_hi) ==
    SumHeads(att, 1, SliceBound(r_lo, n), SliceBound(r_hi, n),
             SliceBound(c_lo, n), SliceBound(c_hi, n))

\* attentions[0].sum().item()
TensorSum(att, n) == BlockSum(att, n, 0, n, 0, n)

RECURSIVE ContextOffsetsSkipping(_, _, _)
\* A loop that leaves out the documents it does not find.
ContextOffsetsSkipping(thread, parts, offsets) ==
    IF parts = <<>> THEN List(offsets)
    ELSE LET span == find_sublist_positions(thread, Head(parts))
         IN  IF Raised(span)
             THEN ContextOffsetsSkipping(thread, Tail(parts), offsets)
             ELSE ContextOffsetsSkipping(thread, Tail(parts),
                                         Append(offsets, span.val))

RECURSIVE ContextOffsets(_, _, _)
\* The loop over context that fills context_offsets (offsets so far, parts
\* left); the first part that is not found raises out of the loop.
ContextOffsets(thread, parts, offsets) ==
    IF parts = <<>> THEN List(offsets)
    ELSE LET span == find_sublist_positions(thread, Head(parts))
         IN  IF Raised(span) THEN span
             ELSE ContextOffsets(thread, Tail(parts), Append(offsets, span.val))

\* The attention of the answer to the document at (start, end).
answer_to_doc_attention(att, n, a, start, end) ==
    BlockSum(att, n, a[1], a[2], start, end)

\* The attention of the document at (start, end) to the answer.
doc_to_answer_attention(att, n, a, start, end) ==
    BlockSum(att, n, start, end, a[1], a[2])

\* The attention of the query to the document at (start, end).
query_to_doc_attention(att, n, q, start, end) ==
    BlockSum(att, n, q[1], q[2], start, end)

\* The attention of the document at (start, end) to the query.
doc_to_query_attention(att, n, q, start, end) ==
    BlockSum(att, n, start, end, q[1], q[2])

\* doc_attention_sum of one document, q and a the query's and the answer's
\* (start, end).
doc_attention_sum(att, n, q, a, start, end, incl) ==
    IF incl
    THEN query_to_doc_attention(att, n, q, start, end)
         + answer_to_doc_attention(att, n, a, start, end)
         + doc_to_query_attention(att, n, q, start, end)
         + doc_to_answer_attention(att, n, a, start, end)
    ELSE answer_to_doc_attention(att, n, a, start, end)
         + doc_to_answer_attention(att, n, a, start, end)

\* normalized_attention
normalized_attention(sum, total) ==
    IF total > 0 THEN TrueDiv(Float(sum), Float(total)) ELSE Float(0)

RECURSIVE DocAttentionsPrepending(_, _, _, _, _, _, _, _)
\* A loop that puts each score in front of the earlier ones.
DocAttentionsPrepending(att, n, q, a, incl, total, offsets, scores) ==
    IF offsets = <<>> THEN scores
    ELSE LET start == Head(offsets)[1]
             end == Head(offsets)[2]
             sum == doc_attention_sum(att, n, q, a, start, end, incl)
         IN  DocAttentionsPrepending(att, n, q, a, incl, total, Tail(offsets),
                                     <<normalized_attention(sum, total)>> \o scores)

RECURSIVE DocAttentions(_, _, _, _, _, _, _, _)
\* The loop over context_offsets that fills doc_attentions (scores so far,
\* offsets left).
DocAttentions(att, n, q, a, incl, total, offsets, scores) ==
    IF offsets = <<>> THEN scores
    ELSE LET start == Head(offsets)[1]
             end == Head(offsets)[2]
             sum == doc_attention_sum(att, n, q, a, start, end, incl)
         IN  DocAttentions(att, n, q, a, incl, total, Tail(offsets),
                           Append(scores, normalized_attention(sum, total)))

\* Lines 35-42 of compute_attention: the spans of the query, the answer and
\* the documents, located in this order; the first failure raises.
LocateSpans(thread, query, parts, answer) ==
    LET q == find_sublist_positions(thread, query)
    IN  IF Raised(q) THEN q
        ELSE LET a == find_sublist_positions(thread, answer)
             IN  IF Raised(a) THEN a
                 ELSE LET offsets == ContextOffsets(thread, parts, <<>>)
                      IN  IF Raised(offsets) THEN offsets
                          ELSE [kind |-> "spans",
                                val |-> <<q.val, a.val, offsets.val>>]

\* Lines 45-75 of compute_attention, given the model's last-layer attention
\* att and the spans: what it returns, and its locals when it returns.
ScoreDocuments(att, n, spans, incl) ==
    LET total == TensorSum(att, n)
    IN  [exc |-> None,
         ret |-> List(DocAttentions(att, n, spans[1], spans[2], incl, total,
                                    spans[3], <<>>)),
         locals |-> [attentions |-> att,
                     query_span |-> spans[1],
                     answer_span |-> spans[2],
                     context_offsets |-> spans[3],
                     total_attention_sum |-> total]]

----------------------------------------------------------------------------
\* DocumentSimilarityAttribution.compute_similarity
\*
\* An embedding is modelled by what compute_similarity reads of it: its
\* cosine similarity to the answer's embedding and to the query's, in halves.

Embeddings == [answer : SimUnits, query : SimUnits]

\* cosine_similarity([doc_embedding], [answer_embedding])[0][0]
doc_answer_similarity(doc_embedding) == Frac(doc_embedding.answer, 2)

\* cosine_similarity([doc_embedding], [query_embedding])[0][0]
doc_query_similarity(doc_embedding) == Frac(doc_embedding.query, 2)

\* The two similarities added and not halved.
SimilaritySummed(doc_embedding, incl) ==
    IF incl
    THEN Add(doc_answer_similarity(doc_embedding),
             doc_query_similarity(doc_embedding))
    ELSE doc_answer_similarity(doc_embedding)

\* similarity_score of one document
similarity_score(doc_embedding, incl) ==
    IF incl
    THEN TrueDiv(Add(doc_answer_similarity(doc_embedding),
                     doc_query_similarity(doc_embedding)), Float(2))
    ELSE doc_answer_similarity(doc_embedding)

RECURSIVE SimilarityScores(_, _, _)
\* The loop over context_embeddings that fills similarity_scores.
SimilarityScores(embeddings, incl, scores) ==
    IF embeddings = <<>> THEN scores
    ELSE SimilarityScores(Tail(embeddings), incl,
                          Append(scores, similarity_score(Head(embeddings), incl)))

\* The number of scores for their sum.
ScoreCount(scores) == Float(Len(scores))

\* sum(similarity_scores)
total_similarity(scores) == SumList(scores)

\* A normalization without the total_similarity > 0 test.
NormalizedUnguarded(scores) ==
    [i \in 1 .. Len(scores) |-> TrueDiv(scores[i], total_similarity(scores))]

\* normalized_scores
normalized_scores(scores) ==
    IF Positive(total_similarity(scores))
    THEN [i \in 1 .. Len(scores) |-> TrueDiv(scores[i], total_similarity(scores))]
    ELSE scores

compute_similarity(embeddings, incl) ==
    LET scores == SimilarityScores(embeddings, incl, <<>>)
    IN  [exc |-> None,
         ret |-> List(normalized_scores(scores)),
         locals |-> [similarity_scores |-> scores,
                     total_similarity |-> total_similarity(scores)]]

----------------------------------------------------------------------------
\* The calls.

InitFind ==
    /\ fn = "find_sublist_positions"
    /\ pc = "called"
    /\ thread_tokens \in SeqsUpTo(Tokens, MaxHaystack)
    /\ part_tokens \in SeqsUpTo(Tokens, MaxHaystack)
    /\ query_tokens = <<>>
    /\ answer_tokens = <<>>
    /\ context = <<>>
    /\ include_query = TRUE
    /\ locals = None
    /\ exc = None
    /\ ret = None

CallFind ==
    /\ fn = "find_sublist_positions"
    /\ pc = "called"
    /\ LET r == find_sublist_positions(thread_tokens, part_tokens)
       IN  IF Raised(r)
           THEN pc' = "raised" /\ exc' = r /\ ret' = None
           ELSE pc' = "returned" /\ exc' = None /\ ret' = r
    /\ UNCHANGED <<fn, thread_tokens, part_tokens, query_tokens, answer_tokens,
                   context, include_query, locals>>

\* A query, an answer or a document is up to two tokens long, and a context
\* of compute_attention holds up to two documents.
Parts == SeqsUpTo(Tokens, 2)

Contexts == SeqsUpTo(Parts, 2)

InitAttention ==
    /\ fn = "compute_attention"
    /\ pc = "called"
    /\ thread_tokens \in SeqsUpTo(Tokens, MaxThread) \ {<<>>}
    /\ part_tokens = <<>>
    /\ query_tokens \in Parts
    /\ answer_tokens \in Parts
    /\ context \in Contexts
    /\ include_query \in BOOLEAN
    /\ locals = None
    /\ exc = None
    /\ ret = None

\* compute_attention. The thread has the chat template applied and is not
\* empty. The model runs once on the thread; its attention is any
\* tensor of the thread's size. A raise drops the locals, the tensor included.
CallAttention ==
    /\ fn = "compute_attention"
    /\ pc = "called"
    /\ LET n == Len(thread_tokens)
           spans == LocateSpans(thread_tokens, query_tokens, context, answer_tokens)
       IN  IF Raised(spans)
           THEN /\ pc' = "raised"
                /\ exc' = spans
                /\ ret' = None
                /\ locals' = None
           ELSE \E att \in Tensors(n) :
                \E r \in {ScoreDocuments(att, n, spans.val, include_query)} :
                      /\ pc' = "returned"
                      /\ exc' = r.exc
                      /\ ret' = r.ret
                      /\ locals' = r.locals
    /\ UNCHANGED <<fn, thread_tokens, part_tokens, query_tokens, answer_tokens,
                   context, include_query>>

InitSimilarity ==
    /\ fn = "compute_similarity"
    /\ pc = "called"
    /\ thread_tokens = <<>>
    /\ part_tokens = <<>>
    /\ query_tokens = <<>>
    /\ answer_tokens = <<>>
    /\ context \in SeqsUpTo(Embeddings, MaxDocs)
    /\ include_query \in BOOLEAN
    /\ locals = None
    /\ exc = None
    /\ ret = None

CallSimilarity ==
    /\ fn = "compute_similarity"
    /\ pc = "called"
    /\ LET r == compute_similarity(context, include_query)
       IN  /\ pc' = "returned"
           /\ exc' = r.exc
           /\ ret' = r.ret
           /\ locals' = r.locals
    /\ UNCHANGED <<fn, thread_tokens, part_tokens, query_tokens, answer_tokens,
                   context, include_query>>

Init == InitFind \/ InitAttention \/ InitSimilarity

Next == CallFind \/ CallAttention \/ CallSimilarity

Spec == Init /\ [][Next]_vars

----------------------------------------------------------------------------
\* What the claims speak of.

FindDone == fn = "find_sublist_positions" /\ pc # "called"

FindReturned == fn = "find_sublist_positions" /\ pc = "returned"

AttentionDone == fn = "compute_attention" /\ pc # "called"

AttentionReturned == fn = "compute_attention" /\ pc = "returned"

SimilarityReturned == fn = "compute_similarity" /\ pc = "returned"

\* N occurs in H at offset k: H[k : k + len(N)] == N, all of N inside H.
Occurs(H, N, k) ==
    /\ 0 <= k
    /\ k + Len(N) <= Len(H)
    /\ \A t \in 1 .. Len(N) : H[k + t] = N[t]

Offsets(H) == 0 .. Len(H)

Found(H, N) == \E k \in Offsets(H) : Occurs(H, N, k)

\* The tokens of H at the offsets start .. end, both included.
Inclusive(H, start, end) == [t \in 1 .. end - start + 1 |-> H[start + t]]

\* Attention summed over all heads, the query positions r_s .. r_e and the key
\* positions c_s .. c_e, every bound included.
InclusiveSum(att, r_s, r_e, c_s, c_e) ==
    SumHeads(att, 1, r_s, r_e + 1, c_s, c_e + 1)

\* RawScore of the document at d, with every span taken inclusively.
InclusiveRawScore(att, q, a, d, incl) ==
    InclusiveSum(att, a[1], a[2], d[1], d[2])
    + InclusiveSum(att, d[1], d[2], a[1], a[2])
    + (IF incl
       THEN InclusiveSum(att, q[1], q[2], d[1], d[2])
            + InclusiveSum(att, d[1], d[2], q[1], q[2])
       ELSE 0)

InUnitInterval(x) == IsFinite(x) /\ Leq(Float(0), x) /\ Leq(x, Float(1))

Docs == 1 .. Len(context)

----------------------------------------------------------------------------
\* C1: in compute_attention, when the total attention weight is > 0, the score
\* of every document is RawScore / TotalWeight, where RawScore sums the
\* attention over all heads for the blocks answer x document and document x
\* answer (and query x document, document x query when include_query), every
\* span taken inclusively: the token at a span's end index is part of its
\* blocks.
C1_InclusiveSpans ==
    (AttentionReturned /\ locals.total_attention_sum > 0) =>
        \A i \in Docs :
            ret.val[i] =
                TrueDiv(Float(InclusiveRawScore(locals.attentions,
                                                locals.query_span,
                                                locals.answer_span,
                                                locals.context_offsets[i],
                                                include_query)),
                        Float(locals.total_attention_sum))

\* C2: whenever the normalizing denominator is > 0, every score either
\* attributor returns lies in [0, 1].
C2_ScoresInUnitInterval ==
    /\ (AttentionReturned /\ locals.total_attention_sum > 0) =>
           \A i \in Docs : InUnitInterval(ret.val[i])
    /\ (SimilarityReturned /\ Positive(locals.total_similarity)) =>
           \A i \in Docs : InUnitInterval(ret.val[i])

\* C3, as claimed: for every offset k at which N occurs in H,
\* find_sublist_positions(H, N) returns exactly (k, k + len(N) - 1).
C3_ReturnsEveryOffset ==
    FindDone =>
        \A k \in Offsets(thread_tokens) :
            Occurs(thread_tokens, part_tokens, k) =>
                /\ pc = "returned"
                /\ ret.val = <<k, k + Len(part_tokens) - 1>>

\* C3, amended: for every offset k at which N occurs in H,
\* find_sublist_positions(H, N) returns (k0, k0 + len(N) - 1) for the lowest
\* offset k0 <= k at which N occurs, H[k0 : k0 + len(N)] == N; it returns
\* (k, k + len(N) - 1) exactly when N occurs at no offset below k.
C3_ReturnsLowestOffsetUpTo ==
    FindDone =>
        \A k \in Offsets(thread_tokens) :
            Occurs(thread_tokens, part_tokens, k) =>
                /\ pc = "returned"
                /\ ret.val[1] <= k
                /\ Occurs(thread_tokens, part_tokens, ret.val[1])
                /\ ret.val[2] = ret.val[1] + Len(part_tokens) - 1
                /\ (ret.val[1] = k) <=>
                       (\A j \in 0 .. k - 1 : ~Occurs(thread_tokens, part_tokens, j))

\* A needle taken at an offset above the one returned.
C3_Witness ==
    /\ FindReturned
    /\ part_tokens # <<>>
    /\ \E k \in Offsets(thread_tokens) :
           Occurs(thread_tokens, part_tokens, k) /\ ret.val[1] < k

\* C4: if N occurs in H at more than one offset, find_sublist_positions
\* returns the span of the lowest one: N occurs at the returned start and at
\* no offset below it, and the haystack cut after that first occurrence gives
\* the same span, so what follows it has no influence.
C4_FirstMatchWins ==
    (FindDone /\ \E j, k \in Offsets(thread_tokens) :
                    /\ j # k
                    /\ Occurs(thread_tokens, part_tokens, j)
                    /\ Occurs(thread_tokens, part_tokens, k)) =>
        /\ pc = "returned"
        /\ Occurs(thread_tokens, part_tokens, ret.val[1])
        /\ \A j \in 0 .. ret.val[1] - 1 : ~Occurs(thread_tokens, part_tokens, j)
        /\ ret.val[2] = ret.val[1] + Len(part_tokens) - 1
        /\ find_sublist_positions(SubSeq(thread_tokens, 1, ret.val[2] + 1),
                                  part_tokens) = ret

\* A non-empty needle found first at an offset above 0, and again later.
C4_Witness ==
    /\ FindReturned
    /\ part_tokens # <<>>
    /\ ret.val[1] > 0
    /\ \E k \in Offsets(thread_tokens) :
           k > ret.val[1] /\ Occurs(thread_tokens, part_tokens, k)

\* C5: when N does not occur in H, find_sublist_positions raises the
\* not-found error and returns no span; and when the query, the answer or any
\* one document does not occur in the thread, compute_attention raises that
\* error and returns no scores at all.
C5_NotFoundRaises ==
    /\ (FindDone /\ ~Found(thread_tokens, part_tokens)) =>
           pc = "raised" /\ exc = ValueError /\ ret = None
    /\ (AttentionDone /\ (\/ ~Found(thread_tokens, query_tokens)
                          \/ ~Found(thread_tokens, answer_tokens)
                          \/ \E i \in Docs : ~Found(thread_tokens, context[i]))) =>
           pc = "raised" /\ exc = ValueError /\ ret = None

\* compute_attention raised although the query, the answer and the first of
\* two documents are in the thread: the second document is not.
C5_Witness ==
    /\ fn = "compute_attention"
    /\ pc = "raised"
    /\ Found(thread_tokens, query_tokens)
    /\ Found(thread_tokens, answer_tokens)
    /\ Len(context) = 2
    /\ context[1] # <<>>
    /\ Found(thread_tokens, context[1])
    /\ ~Found(thread_tokens, context[2])

\* C6: in compute_similarity, whenever the sum of the raw scores is > 0, each
\* returned score is its raw score divided by that sum, and the returned
\* scores sum to 1.
C6_SimilaritySumsToOne ==
    (SimilarityReturned
     /\ Positive(SumList([i \in Docs |-> similarity_score(context[i], include_query)]))) =>
        /\ \A i \in Docs :
               ret.val[i] =
                   TrueDiv(similarity_score(context[i], include_query),
                           SumList([j \in Docs |->
                                       similarity_score(context[j], include_query)]))
        /\ SumList(ret.val) = Float(1)

\* Two documents of different raw scores, one of them negative, the query
\* included.
C6_Witness ==
    /\ SimilarityReturned
    /\ include_query
    /\ Len(context) = 2
    /\ Positive(locals.total_similarity)
    /\ ~Positive(locals.similarity_scores[1])
    /\ locals.similarity_scores[1] # Float(0)
    /\ ret.val[1] # ret.val[2]

\* C7: a denominator that is not positive gives no division and no error:
\* compute_similarity returns the raw scores unchanged, compute_attention
\* returns 0 for every document.
C7_DegenerateFallback ==
    /\ (fn = "compute_similarity" /\ pc # "called"
        /\ ~Positive(SumList([i \in Docs |->
                                 similarity_score(context[i], include_query)]))) =>
           /\ pc = "returned"
           /\ ret = List([i \in Docs |-> similarity_score(context[i], include_query)])
    /\ (AttentionDone /\ Found(thread_tokens, query_tokens)
        /\ Found(thread_tokens, answer_tokens)
        /\ \A i \in Docs : Found(thread_tokens, context[i])) =>
           /\ pc = "returned"
           /\ locals.total_attention_sum <= 0 =>
                  /\ Len(ret.val) = Len(context)
                  /\ \A i \in Docs : ret.val[i] = Float(0)

\* Raw scores that sum to exactly 0 without all being 0.
C7_Witness ==
    /\ SimilarityReturned
    /\ Len(context) = 2
    /\ locals.total_similarity = Float(0)
    /\ locals.similarity_scores[1] # Float(0)
    /\ ret.val = locals.similarity_scores

\* C8, as claimed: for both attributors the raw score with include_query =
\* False is the raw score with include_query = True minus the query terms
\* (QueryToDoc + DocToQuery; the document-query similarity), and nothing else
\* changes.
C8_ToggleSubtractsQueryTerms ==
    /\ AttentionReturned =>
           \A i \in Docs :
               LET att == locals.attentions
                   n == Len(thread_tokens)
                   q == locals.query_span
                   a == locals.answer_span
                   d == locals.context_offsets[i]
               IN  doc_attention_sum(att, n, q, a, d[1], d[2], FALSE) =
                       doc_attention_sum(att, n, q, a, d[1], d[2], TRUE)
                       - (query_to_doc_attention(att, n, q, d[1], d[2])
                          + doc_to_query_attention(att, n, q, d[1], d[2]))
    /\ SimilarityReturned =>
           \A i \in Docs :
               similarity_score(context[i], FALSE) =
                   Sub(similarity_score(context[i], TRUE),
                       doc_query_similarity(context[i]))

\* C8, amended: for compute_attention the raw score with include_query = False
\* is the raw score with include_query = True minus QueryToDoc + DocToQuery.
\* For compute_similarity the raw score with include_query = True is the
\* average (DocAnswerSim + DocQuerySim) / 2 and with include_query = False it
\* is DocAnswerSim: the False score is twice the True score minus DocQuerySim,
\* so including the query also halves the weight of the answer term.
C8_ToggleAveragesSimilarity ==
    /\ AttentionReturned =>
           \A i \in Docs :
               LET att == locals.attentions
                   n == Len(thread_tokens)
                   q == locals.query_span
                   a == locals.answer_span
                   d == locals.context_offsets[i]
               IN  doc_attention_sum(att, n, q, a, d[1], d[2], FALSE) =
                       doc_attention_sum(att, n, q, a, d[1], d[2], TRUE)
                       - (query_to_doc_attention(att, n, q, d[1], d[2])
                          + doc_to_query_attention(att, n, q, d[1], d[2]))
    /\ SimilarityReturned =>
           \A i \in Docs :
               /\ locals.similarity_scores[i] =
                      similarity_score(context[i], include_query)
               /\ similarity_score(context[i], FALSE) =
                      doc_answer_similarity(context[i])
               /\ similarity_score(context[i], FALSE) =
                      Sub(Add(similarity_score(context[i], TRUE),
                              similarity_score(context[i], TRUE)),
                          doc_query_similarity(context[i]))

\* A document similar to the answer and to the query, scored with the query.
C8_Witness ==
    /\ SimilarityReturned
    /\ include_query
    /\ Len(context) >= 1
    /\ context[1].answer > 0
    /\ context[1].query > 0
    /\ locals.similarity_scores[1] # doc_answer_similarity(context[1])

\* C9: every span (start, end) find_sublist_positions returns, the empty
\* needle's included, has start <= end, and the tokens of the thread from
\* start to end inclusive are the needle's.
C9_SpanWellFormed ==
    FindReturned =>
        /\ ret.val[1] <= ret.val[2]
        /\ Inclusive(thread_tokens, ret.val[1], ret.val[2]) = part_tokens

\* C10: a successful call of either attributor returns one score per document
\* of the context, the i-th computed from the i-th document: from its span
\* for compute_attention, from its embedding for compute_similarity.
C10_OneScorePerDocumentInOrder ==
    /\ AttentionReturned =>
           /\ Len(ret.val) = Len(context)
           /\ \A i \in Docs :
                  LET d == find_sublist_positions(thread_tokens, context[i]).val
                  IN  ret.val[i] =
                          normalized_attention(
                              doc_attention_sum(locals.attentions, Len(thread_tokens),
                                                locals.query_span, locals.answer_span,
                                                d[1], d[2], include_query),
                              locals.total_attention_sum)
    /\ SimilarityReturned =>
           /\ Len(ret.val) = Len(context)
           /\ \A i \in Docs :
                  ret.val[i] =
                      IF Positive(locals.total_similarity)
                      THEN TrueDiv(similarity_score(context[i], include_query),
                                   locals.total_similarity)
                      ELSE similarity_score(context[i], include_query)

\* Two documents with different spans and different scores, the second one
\* scoring higher.
C10_Witness ==
    /\ AttentionReturned
    /\ Len(context) = 2
    /\ query_tokens # <<>>
    /\ answer_tokens # <<>>
    /\ context[1] # <<>>
    /\ context[2] # <<>>
    /\ locals.context_offsets[1] # locals.context_offsets[2]
    /\ ret.val[1] = Float(0)
    /\ Positive(ret.val[2])

====
